---- MODULE Spec2Model ----
(***************************************************************************)
(* Gap Discovery Engine (backend/python/gap_analyzer.py) and the Knowledge  *)
(* Graph Extractor (backend/python/extractor.py) whose output it consumes.  *)
(*                                                                         *)
(* Python values are modelled as follows.                                  *)
(*   dict            a sequence of <<key, value>> pairs in insertion order *)
(*   list            a sequence                                            *)
(*   float           an exact rational [num |-> a, den |-> b], b > 0,      *)
(*                   never reduced; compared by cross multiplication       *)
(*   nx.Graph        [nodes |-> sequence of ids in insertion order,        *)
(*                    label |-> function from the ids that carry a 'label' *)
(*                              attribute to that label,                   *)
(*                    edges |-> set of {u, v} (a self-loop is {u})]        *)
(*   semantic distance   an integer number of halves (1 is 0.5)            *)
(*   str (extractor) a sequence of one-character strings                   *)
(*   confidence      an integer number of hundredths (95 is 0.95)          *)
(***************************************************************************)
EXTENDS Integers, Sequences, FiniteSets, TLC

VARIABLES
    pc,                  \* position of the running call
    stdinOk,             \* whether stdin holds a JSON object
    nodes,               \* graph_data['nodes']
    edges,               \* graph_data['edges']
    COMMUNITY_AVAILABLE, \* module flag set at import (python-louvain)
    SEMANTIC_AVAILABLE,  \* module flag set at import (sentence_transformers)
    args,                \* min_cluster_size, max_gaps of find_structural_gaps
    G,                   \* the networkx graph
    betweenness,         \* dict node -> centrality
    communities,         \* dict node -> community id
    scorerOut,           \* what the embedding model did for each community pair
    gaps,                \* list returned by find_structural_gaps
    stdout,              \* lines printed to standard output
    exitCode,            \* process exit status, -1 while running
    exception,           \* the exception that ended the call, "" for none
    xpc,                 \* position of the running extractor call, "idle" for none
    doc,                 \* extractor: the text on stdin as spaCy analyses it
    TOPIC_MODELING_AVAILABLE, \* extractor: module flag set at import (bertopic)
    entities,            \* extractor: the entity node list (nodes of main)
    deduplicated,        \* extractor: what deduplicate_entities returned
    node_ids,            \* extractor: dict label -> id
    counter,             \* extractor: next node id
    dep_edges,           \* extractor: list from extract_dependency_relationships
    pattern_edges,       \* extractor: list from extract_pattern_relationships
    semantic_edges,      \* extractor: list from extract_semantic_relationships
    theme_nodes,         \* extractor: theme nodes from extract_topics
    theme_edges          \* extractor: theme edges from extract_topics

\* The state of the extractor that the gap engine never touches.
extractorVars == <<xpc, doc, TOPIC_MODELING_AVAILABLE, entities, deduplicated, node_ids,
                   counter, dep_edges, pattern_edges, semantic_edges, theme_nodes,
                   theme_edges>>

\* The state of the gap engine that the extractor never touches.
analyzerVars == <<pc, stdinOk, nodes, edges, COMMUNITY_AVAILABLE, args, G, betweenness,
                  communities, scorerOut, gaps, exception>>

vars == <<pc, stdinOk, nodes, edges, COMMUNITY_AVAILABLE, SEMANTIC_AVAILABLE,
          args, G, betweenness, communities, scorerOut, gaps, stdout, exitCode,
          exception, extractorVars>>

\* No extractor call is running.
ExtractorIdle ==
    /\ xpc = "idle"
    /\ doc = <<>>
    /\ TOPIC_MODELING_AVAILABLE = FALSE
    /\ entities = <<>>
    /\ deduplicated = <<>>
    /\ node_ids = <<>>
    /\ counter = 1
    /\ dep_edges = <<>>
    /\ pattern_edges = <<>>
    /\ semantic_edges = <<>>
    /\ theme_nodes = <<>>
    /\ theme_edges = <<>>

----------------------------------------------------------------------------
\* Bounds of the model.

\* Largest number of entries of the input node list.
MaxNodes == 6

\* Largest number of graph edges the modularity optimizer leaves between
\* communities (it returns the components of the graph minus that many edges).
MaxCutEdges == 1

----------------------------------------------------------------------------
\* Program constants.

MIN_NODES == 5                  \* main: len(nodes) < 5
MIN_EDGES == 2                  \* main: len(edges) < 2
DEFAULT_MIN_CLUSTER_SIZE == 3   \* find_structural_gaps(min_cluster_size=3)
DEFAULT_MAX_GAPS == 10          \* find_structural_gaps(max_gaps=10)
KEYWORDS_TOP_N == 5             \* get_cluster_keywords(top_n=5)
BRIDGE_TOP_N == 3               \* find_bridge_nodes(top_n=3)
DEFAULT_DISTANCE == 1           \* return 0.5, in halves

----------------------------------------------------------------------------
\* Generic helpers.

Range(s) == {s[i] : i \in DOMAIN s}

\* The slots of the hash table of a CPython set that holds n elements and had
\* none removed: 8, grown to 32 by the fifth element and to 128 by the
\* nineteenth.
SetSlots(n) == IF n <= 4 THEN 8 ELSE IF n <= 18 THEN 32 ELSE 128

\* The element of S that a set with the given number of slots yields first: an
\* integer hashes to itself and sits in slot (hash mod slots).
FirstInSet(S, slots) ==
    CHOOSE x \in S : \A y \in S :
        \/ x % slots < y % slots
        \/ x % slots = y % slots /\ x <= y

RECURSIVE IterateSet(_, _)
IterateSet(S, slots) ==
    IF S = {} THEN <<>>
    ELSE <<FirstInSet(S, slots)>> \o IterateSet(S \ {FirstInSet(S, slots)}, slots)

\* The order in which "for x in S" runs over a set of non-negative integers
\* that occupy distinct slots.
SetIteration(S) == IterateSet(S, SetSlots(Cardinality(S)))

RECURSIVE SumSeq(_)
SumSeq(s) == IF s = <<>> THEN 0 ELSE Head(s) + SumSeq(Tail(s))

RECURSIVE SumOver(_, _)
SumOver(S, f) ==
    IF S = {} THEN 0
    ELSE LET x == CHOOSE y \in S : TRUE IN f[x] + SumOver(S \ {x}, f)

Take(s, n) == SubSeq(s, 1, IF Len(s) < n THEN Len(s) ELSE n)

Keys(dict) == [i \in 1..Len(dict) |-> dict[i][1]]

Values(dict) == {dict[i][2] : i \in DOMAIN dict}

\* Rationals.
Rat(n, d) == [num |-> n, den |-> d]
RLess(a, b) == a.num * b.den < b.num * a.den
REq(a, b) == a.num * b.den = b.num * a.den
RAdd(a, b) == Rat(a.num * b.den + b.num * a.den, a.den * b.den)

\* The function f with all its values computed.
Eager(f) == f @@ <<>>

\* TRUE, once the value of x has been computed: a loop that tests it on its
\* accumulator computes each step before the next.
Computed(x) == x = x

RECURSIVE Gcd(_, _)
Gcd(a, b) == IF b = 0 THEN a ELSE Gcd(b, a % b)
Lcm(a, b) == (a * b) \div Gcd(a, b)

RECURSIVE LcmSet(_)
LcmSet(S) == IF S = {} THEN 1 ELSE LET x == CHOOSE y \in S : TRUE
                                   IN  Lcm(x, LcmSet(S \ {x}))

----------------------------------------------------------------------------
\* networkx.Graph

EmptyGraph == [nodes |-> <<>>, label |-> <<>>, edges |-> {}]

NodeSet(g) == Range(g.nodes)

\* G.add_node(id, label=...): a new id is appended, a known id keeps its place;
\* the attribute is set either way.
add_node(g, id, label) ==
    [nodes |-> IF id \in NodeSet(g) THEN g.nodes ELSE Append(g.nodes, id),
     label |-> [x \in (DOMAIN g.label) \cup {id} |->
                  IF x = id THEN label ELSE g.label[x]],
     edges |-> g.edges]

\* The node u as G.add_edge adds it: silently, without attributes, if unknown.
touch_node(g, u) ==
    [nodes |-> IF u \in NodeSet(g) THEN g.nodes ELSE Append(g.nodes, u),
     label |-> g.label,
     edges |-> g.edges]

\* G.add_edge(u, v): both endpoints are added when missing; a repeated edge
\* (either direction) is the same edge.
add_edge(g, u, v) ==
    LET g1 == touch_node(g, u)
        g2 == touch_node(g1, v)
    IN  [nodes |-> g2.nodes, label |-> g2.label, edges |-> g2.edges \cup {{u, v}}]

RECURSIVE AddNodes(_, _)
AddNodes(g, ns) ==
    IF ns = <<>> \/ ~Computed(g) THEN g
    ELSE AddNodes(add_node(g, Head(ns).id, Head(ns).label), Tail(ns))

RECURSIVE AddEdges(_, _)
AddEdges(g, es) ==
    IF es = <<>> \/ ~Computed(g) THEN g
    ELSE AddEdges(add_edge(g, Head(es).from, Head(es).to), Tail(es))

build_networkx_graph(ns, es) == AddEdges(AddNodes(EmptyGraph, ns), es)

has_edge(g, a, b) == {a, b} \in g.edges

Neighbors(g, v) == {w \in NodeSet(g) : w # v /\ has_edge(g, v, w)}

----------------------------------------------------------------------------
\* nx.connected_components

RECURSIVE Closure(_, _)
\* The nodes reachable from the set S.
Closure(g, S) ==
    LET T == S \cup UNION {Neighbors(g, x) : x \in S}
    IN  IF T = S THEN S ELSE Closure(g, T)

RECURSIVE ComponentsFrom(_, _, _)
ComponentsFrom(g, order, seen) ==
    IF order = <<>> THEN <<>>
    ELSE IF Head(order) \in seen THEN ComponentsFrom(g, Tail(order), seen)
    ELSE LET c == Closure(g, {Head(order)})
         IN  <<c>> \o ComponentsFrom(g, Tail(order), seen \cup c)

\* The components, in the order in which the graph's node iteration first
\* meets each of them.
connected_components(g) == ComponentsFrom(g, g.nodes, {})

RECURSIVE ComponentDict(_, _)
\* {node: idx for idx, component in enumerate(...) for node in component};
\* a component is a set of node ids.
ComponentDict(comps, idx) ==
    IF comps = <<>> THEN <<>>
    ELSE LET members == SetIteration(Head(comps))
         IN  [i \in 1..Len(members) |-> <<members[i], idx>>]
             \o ComponentDict(Tail(comps), idx + 1)

ComponentIndex(comps, v) == CHOOSE i \in 1..Len(comps) : v \in comps[i]

----------------------------------------------------------------------------
\* community_louvain.best_partition

WithoutEdges(g, cut) == [nodes |-> g.nodes, label |-> g.label, edges |-> g.edges \ cut]

\* A partition as best_partition returns it: a dict over the graph's nodes in
\* node order whose values are 0..k-1.  flip chooses between the two
\* numberings the model draws.
PartitionDict(g, comps, flip) ==
    [i \in 1..Len(g.nodes) |->
        LET idx == ComponentIndex(comps, g.nodes[i])
        IN  <<g.nodes[i], IF flip THEN Len(comps) - idx ELSE idx - 1>>]

Degree(g, v) == Cardinality({e \in g.edges : v \in e /\ Cardinality(e) = 2})
                + 2 * Cardinality({e \in g.edges : e = {v}})

\* The modularity of the partition comps of g, times 4m^2:
\* the sum over communities of 4m * (edges inside) - (sum of degrees)^2.
Modularity(g, comps) ==
    LET m == Cardinality(g.edges)
        inside(c) == Cardinality({e \in g.edges : e \subseteq c})
        degrees(c) == SumOver(c, [v \in NodeSet(g) |-> Degree(g, v)])
    IN  SumSeq([i \in 1..Len(comps) |->
                  4 * m * inside(comps[i]) - degrees(comps[i]) * degrees(comps[i])])

\* The partitions the optimizer chooses among in the model: the components of
\* g with up to MaxCutEdges edges removed.
CandidatePartitions(g) ==
    {connected_components(WithoutEdges(g, cut)) :
        cut \in {c \in SUBSET g.edges : Cardinality(c) <= MaxCutEdges}}

\* The results the optimizer may return for g.  The node order of each pass is
\* shuffled with an unseeded generator, so the call is not a function of g:
\* which of several partitions of greatest modularity is reached, and which
\* community gets which of the numbers 0..k-1, changes from run to run.  A
\* graph without edges gets one community per node, numbered in node order.
best_partition(g) ==
    IF g.edges = {}
    THEN {PartitionDict(g, connected_components(g), FALSE)}
    ELSE LET cands == CandidatePartitions(g)
             best  == {c \in cands : \A d \in cands : Modularity(g, d) <= Modularity(g, c)}
         IN  {PartitionDict(g, c, flip) : c \in best, flip \in BOOLEAN}

\* Mutant: the fallback numbers only the components that have an edge.
detect_communities_edges_only(g) ==
    IF ~COMMUNITY_AVAILABLE
    THEN {ComponentDict(SelectSeq(connected_components(g),
                                  LAMBDA c : Cardinality(c) > 1), 0)}
    ELSE best_partition(g)

\* The set of dicts detect_communities may return.
detect_communities(g) ==
    IF ~COMMUNITY_AVAILABLE
    THEN {ComponentDict(connected_components(g), 0)}
    ELSE best_partition(g)

----------------------------------------------------------------------------
\* nx.betweenness_centrality (unweighted, normalized, endpoints excluded)

RECURSIVE BfsDist(_, _, _, _)
\* Breadth-first distances from the source; -1 marks an unreached node.
BfsDist(g, frontier, k, dist) ==
    IF frontier = {} THEN dist
    ELSE LET next == {w \in NodeSet(g) :
                        dist[w] = -1 /\ \E v \in frontier : w \in Neighbors(g, v)}
         IN  BfsDist(g, next, k + 1,
                     Eager([v \in NodeSet(g) |-> IF v \in next THEN k + 1 ELSE dist[v]]))

DistFrom(g, s) ==
    BfsDist(g, {s}, 0, [v \in NodeSet(g) |-> IF v = s THEN 0 ELSE -1])

RECURSIVE SigmaLevels(_, _, _, _)
\* sigma[v]: the number of shortest paths from the source to v, level by level.
SigmaLevels(g, dist, k, sigma) ==
    LET level == {v \in NodeSet(g) : dist[v] = k}
    IN  IF level = {} \/ ~Computed(sigma) THEN sigma
        ELSE SigmaLevels(g, dist, k + 1,
               Eager([v \in NodeSet(g) |->
                  IF v \in level
                  THEN SumOver({u \in Neighbors(g, v) : dist[u] = k - 1}, sigma)
                  ELSE sigma[v]]))

SigmaFrom(g, s, dist) ==
    SigmaLevels(g, dist, 1, [v \in NodeSet(g) |-> IF v = s THEN 1 ELSE 0])

\* Mutant: normalized by the count of all ordered pairs of nodes.
NormalizationScaleAllPairs(n) == IF n > 2 THEN n * (n - 1) ELSE 1

\* Mutant: the totals are halved before they are normalized.
NormalizationScaleHalved(n) == IF n > 2 THEN 2 * (n - 1) * (n - 2) ELSE 1

\* Mutant: normalized=False, where an undirected graph's totals are halved.
NormalizationScaleOff(n) == 2

\* The divisor of the accumulated totals (normalized=True, endpoints=False):
\* (n-1)(n-2), and nothing when n <= 2.
NormalizationScale(n) == IF n > 2 THEN (n - 1) * (n - 2) ELSE 1

\* The dict nx.betweenness_centrality returns, in node order.  Every value is
\* the sum over ordered pairs (s, t), s # v # t, of the fraction of shortest
\* s-t paths through v, scaled by 1/((n-1)(n-2)) when n > 2.  All values share
\* the denominator lcm(sigma) * (n-1)(n-2).
calculate_betweenness_centrality(g) ==
    LET V     == NodeSet(g)
        n     == Cardinality(V)
        dist  == Eager([s \in V |-> DistFrom(g, s)])
        sigma == Eager([s \in V |-> SigmaFrom(g, s, dist[s])])
        L     == LcmSet({sigma[s][t] : s \in V, t \in V} \ {0})
        scale == NormalizationScale(n)
        targets(s, v) ==
            {t \in V : /\ s # t /\ s # v /\ t # v
                       /\ dist[s][t] > 0 /\ dist[s][v] > 0 /\ dist[v][t] > 0
                       /\ dist[s][v] + dist[v][t] = dist[s][t]}
        through(v) ==
            SumOver(V, [s \in V |->
                SumOver(targets(s, v), [t \in V |->
                    IF t \in targets(s, v)
                    THEN sigma[s][v] * sigma[v][t] * (L \div sigma[s][t])
                    ELSE 0])])
    IN  [i \in 1..Len(g.nodes) |-> <<g.nodes[i], Rat(through(g.nodes[i]), L * scale)>>]

----------------------------------------------------------------------------
\* The embedding model behind calculate_semantic_distance.

\* Largest distance, in halves, the embedding model returns in the model.
MaxDistance == 2

\* The scorer was not invoked for a pair.
NotCalled == [called |-> FALSE, raises |-> FALSE, value |-> 0]

\* What an invocation may do: raise, or return a distance.
ScorerOutcomes ==
    {[called |-> TRUE, raises |-> TRUE, value |-> 0]}
    \cup {[called |-> TRUE, raises |-> FALSE, value |-> v] : v \in 0..MaxDistance}

----------------------------------------------------------------------------
\* gap_analyzer.py, lines 51-152

\* Mutant: the pairs are visited in both directions.
count_edges_between_twice(g, nodes_c1, nodes_c2) ==
    Cardinality({<<i, j>> \in (DOMAIN nodes_c1) \X (DOMAIN nodes_c2) :
                    has_edge(g, nodes_c1[i], nodes_c2[j])})
    + Cardinality({<<j, i>> \in (DOMAIN nodes_c2) \X (DOMAIN nodes_c1) :
                    has_edge(g, nodes_c2[j], nodes_c1[i])})

\* One count per (n1, n2) of the two lists that the graph joins by an edge.
count_edges_between(g, nodes_c1, nodes_c2) ==
    Cardinality({<<i, j>> \in (DOMAIN nodes_c1) \X (DOMAIN nodes_c2) :
                    has_edge(g, nodes_c1[i], nodes_c2[j])})

\* G.nodes[node]['label'] raises KeyError for a node of the graph that has no
\* 'label' attribute.
KeywordsRaise(g, community_nodes) ==
    \E i \in DOMAIN community_nodes :
        /\ community_nodes[i] \in NodeSet(g)
        /\ community_nodes[i] \notin DOMAIN g.label

get_cluster_keywords(g, community_nodes) ==
    LET present == SelectSeq(community_nodes, LAMBDA n : n \in NodeSet(g))
    IN  Take([i \in 1..Len(present) |-> g.label[present[i]]], KEYWORDS_TOP_N)

\* Whether the call reaches the embedding model.
ScorerInvoked(cluster_1_keywords, cluster_2_keywords) ==
    SEMANTIC_AVAILABLE /\ cluster_1_keywords # <<>> /\ cluster_2_keywords # <<>>

\* Mutant: no try/except value, a failing model yields distance 0.
calculate_semantic_distance_unguarded(cluster_1_keywords, cluster_2_keywords, out) ==
    IF ~ScorerInvoked(cluster_1_keywords, cluster_2_keywords) THEN DEFAULT_DISTANCE
    ELSE out.value

\* out is what the embedding model does when it is reached.
calculate_semantic_distance(cluster_1_keywords, cluster_2_keywords, out) ==
    IF ~ScorerInvoked(cluster_1_keywords, cluster_2_keywords) THEN DEFAULT_DISTANCE
    ELSE IF out.raises THEN DEFAULT_DISTANCE
    ELSE out.value

RECURSIVE InsertDesc(_, _)
\* The <<key, item>> x placed behind every element whose key is not strictly
\* smaller than its own.
InsertDesc(s, x) ==
    IF s = <<>> THEN <<x>>
    ELSE IF RLess(Head(s)[1], x[1]) THEN <<x>> \o s
    ELSE <<Head(s)>> \o InsertDesc(Tail(s), x)

RECURSIVE SortDesc(_, _)
\* list.sort(key=..., reverse=True) over <<key, item>> pairs: stable,
\* descending by key.
SortDesc(s, acc) ==
    IF s = <<>> THEN acc
    ELSE SortDesc(Tail(s), InsertDesc(acc, Head(s)))

\* Mutant: the candidates are not restricted to the two communities.
find_bridge_nodes_unfiltered(bt, nodes_c1, nodes_c2, top_n) ==
    LET keyed  == [i \in 1..Len(bt) |-> <<bt[i][2], bt[i][1]>>]
        sorted == SortDesc(keyed, <<>>)
    IN  [i \in 1..Len(Take(sorted, top_n)) |-> sorted[i][2]]

find_bridge_nodes(bt, nodes_c1, nodes_c2, top_n) ==
    LET all_nodes         == Range(nodes_c1) \cup Range(nodes_c2)
        bridge_candidates == SelectSeq(bt, LAMBDA kv : kv[1] \in all_nodes)
        keyed  == [i \in 1..Len(bridge_candidates) |->
                     <<bridge_candidates[i][2], bridge_candidates[i][1]>>]
        sorted == SortDesc(keyed, <<>>)
    IN  [i \in 1..Len(Take(sorted, top_n)) |-> sorted[i][2]]

\* Iteration over community_ids = set(communities.values()).
CommunityIds(comms) == SetIteration(Values(comms))

\* The (c1, c2) the two nested loops reach past "if c1 >= c2: continue", in
\* loop order.
PairLoop(comms) ==
    LET ids == CommunityIds(comms)
        all == [k \in 1..(Len(ids) * Len(ids)) |->
                  <<ids[((k - 1) \div Len(ids)) + 1], ids[((k - 1) % Len(ids)) + 1]>>]
    IN  SelectSeq(all, LAMBDA p : ~(p[1] >= p[2]))

MembersOf(comms, c) ==
    LET sel == SelectSeq(comms, LAMBDA kv : kv[2] = c)
    IN  Keys(sel)

\* Mutant: a pair is dropped only when both clusters are small.
SizedPairsBothSmall(comms, min_cluster_size) ==
    SelectSeq(PairLoop(comms), LAMBDA p :
        ~(Len(MembersOf(comms, p[1])) < min_cluster_size
          /\ Len(MembersOf(comms, p[2])) < min_cluster_size))

\* "Filter small clusters": the pairs that go on to be scored.
SizedPairs(comms, min_cluster_size) ==
    SelectSeq(PairLoop(comms), LAMBDA p :
        ~(Len(MembersOf(comms, p[1])) < min_cluster_size
          \/ Len(MembersOf(comms, p[2])) < min_cluster_size))

CONNECTIVITY_THRESHOLD == Rat(1, 5)

Connectivity(inter_edges, max_possible_edges) ==
    IF max_possible_edges > 0 THEN Rat(inter_edges, max_possible_edges) ELSE Rat(0, 1)

\* Mutant: connectivity for its complement.
GapScoreByConnectivity(cluster_size_score, connectivity, semantic_distance) ==
    Rat(cluster_size_score * connectivity.num * (2 + semantic_distance),
        connectivity.den * 2)

\* Mutant: the semantic distance is left out of the score.
GapScoreNoDistance(cluster_size_score, connectivity, semantic_distance) ==
    Rat(cluster_size_score * (connectivity.den - connectivity.num), connectivity.den)

\* cluster_size_score * (1 - connectivity) * (1 + semantic_distance)
GapScore(cluster_size_score, connectivity, semantic_distance) ==
    Rat(cluster_size_score * (connectivity.den - connectivity.num)
            * (2 + semantic_distance),
        connectivity.den * 2)

\* Mutant: the threshold 0.5 for 0.2.
IsSignificantHalf(connectivity) == RLess(connectivity, Rat(1, 2))

IsSignificant(connectivity) == RLess(connectivity, CONNECTIVITY_THRESHOLD)

\* The record built for one pair (lines 104-148).
GapRecord(g, comms, bt, p, out) ==
    LET nodes_c1 == MembersOf(comms, p[1])
        nodes_c2 == MembersOf(comms, p[2])
        inter_edges == count_edges_between(g, nodes_c1, nodes_c2)
        max_possible_edges == Len(nodes_c1) * Len(nodes_c2)
        connectivity == Connectivity(inter_edges, max_possible_edges)
        cluster_1_keywords == get_cluster_keywords(g, nodes_c1)
        cluster_2_keywords == get_cluster_keywords(g, nodes_c2)
        semantic_distance ==
            calculate_semantic_distance(cluster_1_keywords, cluster_2_keywords, out)
    IN  [community_1 |-> p[1],
         community_2 |-> p[2],
         nodes_1 |-> nodes_c1,
         nodes_2 |-> nodes_c2,
         cluster_1_keywords |-> cluster_1_keywords,
         cluster_2_keywords |-> cluster_2_keywords,
         gap_score |-> GapScore(Len(nodes_c1) * Len(nodes_c2), connectivity,
                                semantic_distance),
         connectivity |-> connectivity,
         semantic_distance |-> semantic_distance,
         potential_connections |-> inter_edges,
         cluster_size |-> Len(nodes_c1) + Len(nodes_c2),
         bridge_nodes |-> find_bridge_nodes(bt, nodes_c1, nodes_c2, BRIDGE_TOP_N)]

\* Whether find_structural_gaps ends in KeyError instead of returning.
GapsRaise(g, comms, min_cluster_size) ==
    \E i \in DOMAIN SizedPairs(comms, min_cluster_size) :
        LET p == SizedPairs(comms, min_cluster_size)[i]
        IN  \/ KeywordsRaise(g, MembersOf(comms, p[1]))
            \/ KeywordsRaise(g, MembersOf(comms, p[2]))

\* The gaps appended by the loops, in append order.
AppendedGaps(g, comms, bt, min_cluster_size, outs) ==
    LET sized == SizedPairs(comms, min_cluster_size)
        recs  == [i \in 1..Len(sized) |-> GapRecord(g, comms, bt, sized[i], outs[sized[i]])]
    IN  SelectSeq(recs, LAMBDA r : IsSignificant(r.connectivity))

\* outs[p] is what the embedding model does for the pair p.
find_structural_gaps(g, comms, bt, min_cluster_size, max_gaps, outs) ==
    LET appended == AppendedGaps(g, comms, bt, min_cluster_size, outs)
        keyed    == [i \in 1..Len(appended) |-> <<appended[i].gap_score, appended[i]>>]
        sorted   == SortDesc(keyed, <<>>)
    IN  [i \in 1..Len(Take(sorted, max_gaps)) |-> sorted[i][2]]

\* The behaviours of the embedding model over the pairs that are scored: one
\* outcome for each pair that reaches it, NotCalled for the others.
ScorerRuns(g, comms, min_cluster_size) ==
    LET sized == Range(SizedPairs(comms, min_cluster_size))
        reached(p) == ScorerInvoked(get_cluster_keywords(g, MembersOf(comms, p[1])),
                                    get_cluster_keywords(g, MembersOf(comms, p[2])))
    IN  {f \in [sized -> ScorerOutcomes \cup {NotCalled}] :
            \A p \in sized : f[p].called <=> reached(p)}

----------------------------------------------------------------------------
\* gap_analyzer.py, lines 154-180

Significance(gap_score) ==
    IF RLess(Rat(100, 1), gap_score) THEN "High"
    ELSE IF RLess(Rat(50, 1), gap_score) THEN "Medium"
    ELSE "Low"

\* The f-strings are kept as the tuple of the values they interpolate.
generate_gap_insights(gap, g) ==
    LET c1_keywords == gap.cluster_1_keywords
        c2_keywords == gap.cluster_2_keywords
    IN  [title |-> <<c1_keywords[1], c2_keywords[1]>>,
         description |-> <<Len(gap.nodes_1), c1_keywords[1],
                           Len(gap.nodes_2), c2_keywords[1],
                           (gap.connectivity.num * 100) \div gap.connectivity.den>>,
         significance |-> Significance(gap.gap_score),
         cluster_1_keywords |-> c1_keywords,
         cluster_2_keywords |-> c2_keywords,
         bridge_suggestion |-> <<c1_keywords[1], c2_keywords[1]>>,
         gap_score |-> gap.gap_score,
         semantic_distance |-> gap.semantic_distance,
         potential_connections |-> gap.potential_connections,
         bridge_nodes |->
            LET kept == SelectSeq(gap.bridge_nodes, LAMBDA n : n \in NodeSet(g))
            IN  [i \in 1..Len(kept) |-> g.label[kept[i]]]]

----------------------------------------------------------------------------
\* gap_analyzer.py, lines 182-236: main

\* Mutant: "and" for "or".
TooSmallBoth(ns, es) == Len(ns) < MIN_NODES /\ Len(es) < MIN_EDGES

TooSmall(ns, es) == Len(ns) < MIN_NODES \/ Len(es) < MIN_EDGES

TooSmallResult ==
    [gaps |-> <<>>,
     message |-> "Graph too small for gap analysis (need 5+ nodes, 2+ edges)",
     num_communities |-> 0,
     num_gaps_detected |-> 0]

RECURSIVE RSum(_)
RSum(s) == IF s = <<>> THEN Rat(0, 1) ELSE RAdd(Head(s), RSum(Tail(s)))

AverageGapScore(gs) ==
    IF gs # <<>>
    THEN LET total == RSum([i \in 1..Len(gs) |-> gs[i].gap_score])
         IN  Rat(total.num, total.den * Len(gs))
    ELSE Rat(0, 1)

FullResult(ns, es, g, comms, gs) ==
    LET num_communities == Cardinality(Values(comms))
    IN  [gaps |-> [i \in 1..Len(gs) |-> generate_gap_insights(gs[i], g)],
         num_communities |-> num_communities,
         num_gaps_detected |-> Len(gs),
         analysis_metadata |->
            [total_nodes |-> Len(ns),
             total_edges |-> Len(es),
             num_communities |-> num_communities,
             average_gap_score |-> AverageGapScore(gs)]]

\* Mutant: a bare "except:", which catches SystemExit too.
CaughtByBareExcept(exc) == TRUE

\* "except Exception": every exception raised in the try block is caught,
\* SystemExit (raised by sys.exit) is not.
CaughtByMain(exc) == exc # "SystemExit"

\* The handler: report on stderr, leave stdout alone, exit 1.
Fatal(exc) ==
    /\ pc' = "error"
    /\ exitCode' = 1
    /\ exception' = exc
    /\ UNCHANGED stdout

\* json.loads raises, or graph_data has no .get.
MainBadInput ==
    /\ pc = "start"
    /\ ~stdinOk
    /\ CaughtByMain("ValueError")
    /\ Fatal("ValueError")
    /\ UNCHANGED <<extractorVars, stdinOk, nodes, edges, COMMUNITY_AVAILABLE, SEMANTIC_AVAILABLE,
                   args, G, betweenness, communities, scorerOut, gaps>>

\* The short-circuit: print the too-small result, then sys.exit(0).
MainTooSmall ==
    /\ pc = "start"
    /\ stdinOk
    /\ TooSmall(nodes, edges)
    /\ stdout' = Append(stdout, TooSmallResult)
    /\ IF CaughtByMain("SystemExit")
       THEN pc' = "error" /\ exitCode' = 1
       ELSE pc' = "done" /\ exitCode' = 0
    /\ UNCHANGED <<extractorVars, stdinOk, nodes, edges, COMMUNITY_AVAILABLE, SEMANTIC_AVAILABLE,
                   args, G, betweenness, communities, scorerOut, gaps, exception>>

MainBuild ==
    /\ pc = "start"
    /\ stdinOk
    /\ ~TooSmall(nodes, edges)
    /\ G' = build_networkx_graph(nodes, edges)
    /\ pc' = "built"
    /\ UNCHANGED <<extractorVars, stdinOk, nodes, edges, COMMUNITY_AVAILABLE, SEMANTIC_AVAILABLE,
                   args, betweenness, communities, scorerOut, gaps, stdout, exitCode, exception>>

MainBetweenness ==
    /\ pc = "built"
    /\ betweenness' = calculate_betweenness_centrality(G)
    /\ pc' = "centrality"
    /\ UNCHANGED <<extractorVars, stdinOk, nodes, edges, COMMUNITY_AVAILABLE, SEMANTIC_AVAILABLE,
                   args, G, communities, scorerOut, gaps, stdout, exitCode, exception>>

MainDetect ==
    /\ pc = "centrality"
    /\ \E c \in detect_communities(G) : communities' = c
    /\ pc' = "communities"
    /\ UNCHANGED <<extractorVars, stdinOk, nodes, edges, COMMUNITY_AVAILABLE, SEMANTIC_AVAILABLE,
                   args, G, betweenness, scorerOut, gaps, stdout, exitCode, exception>>

\* community_louvain.best_partition raises.  detect_communities has no
\* handler, so the exception leaves it and reaches the handler of main.
MainDetectRaises ==
    /\ pc = "centrality"
    /\ COMMUNITY_AVAILABLE
    /\ CaughtByMain("LouvainError")
    /\ Fatal("LouvainError")
    /\ UNCHANGED <<extractorVars, stdinOk, nodes, edges, COMMUNITY_AVAILABLE, SEMANTIC_AVAILABLE,
                   args, G, betweenness, communities, scorerOut, gaps>>

\* find_structural_gaps returns.
GapsReturn(to) ==
    /\ ~GapsRaise(G, communities, args.min_cluster_size)
    /\ \E outs \in ScorerRuns(G, communities, args.min_cluster_size) :
          /\ scorerOut' = outs
          /\ gaps' = find_structural_gaps(G, communities, betweenness,
                                          args.min_cluster_size, args.max_gaps, outs)
    /\ pc' = to

\* Mutant: the bridge candidates are sorted in the centrality table itself.
MainFindGapsSortingTable ==
    /\ pc = "communities"
    /\ GapsReturn("gaps")
    /\ betweenness' =
          LET keyed  == [i \in 1..Len(betweenness) |-> <<betweenness[i][2], betweenness[i]>>]
              sorted == SortDesc(keyed, <<>>)
          IN  [i \in 1..Len(sorted) |-> sorted[i][2]]
    /\ UNCHANGED <<extractorVars, stdinOk, nodes, edges, COMMUNITY_AVAILABLE, SEMANTIC_AVAILABLE,
                   args, G, communities, stdout, exitCode, exception>>

MainFindGaps ==
    /\ pc = "communities"
    /\ GapsReturn("gaps")
    /\ UNCHANGED <<extractorVars, stdinOk, nodes, edges, COMMUNITY_AVAILABLE, SEMANTIC_AVAILABLE,
                   args, G, betweenness, communities, stdout, exitCode, exception>>

\* get_cluster_keywords raises KeyError inside find_structural_gaps.
MainGapsKeyError ==
    /\ pc = "communities"
    /\ GapsRaise(G, communities, args.min_cluster_size)
    /\ CaughtByMain("KeyError")
    /\ Fatal("KeyError")
    /\ UNCHANGED <<extractorVars, stdinOk, nodes, edges, COMMUNITY_AVAILABLE, SEMANTIC_AVAILABLE,
                   args, G, betweenness, communities, scorerOut, gaps>>

\* Insights, result, print(json.dumps(result)); main returns.
MainEmit ==
    /\ pc = "gaps"
    /\ stdout' = Append(stdout, FullResult(nodes, edges, G, communities, gaps))
    /\ pc' = "done"
    /\ exitCode' = 0
    /\ UNCHANGED <<extractorVars, stdinOk, nodes, edges, COMMUNITY_AVAILABLE, SEMANTIC_AVAILABLE,
                   args, G, betweenness, communities, scorerOut, gaps, exception>>

----------------------------------------------------------------------------
\* Inputs of main.

NodeLabel(i) == 100 + i

NodeList(n) == [i \in 1..n |-> [id |-> i, label |-> NodeLabel(i)]]

\* The same list, last entry first.
Reverse(s) == [i \in 1..Len(s) |-> s[Len(s) + 1 - i]]

Edge(u, v) == [from |-> u, to |-> v]

\* Two triangles and the edge that joins them.
EdgePool ==
    <<Edge(1, 2), Edge(2, 3), Edge(1, 3), Edge(3, 4), Edge(4, 5), Edge(5, 6), Edge(4, 6)>>

SubList(pool, idx) ==
    LET keep == SelectSeq([i \in 1..Len(pool) |-> i], LAMBDA i : i \in idx)
    IN  [k \in 1..Len(keep) |-> pool[keep[k]]]

\* A sub-list of the pool; with dup, its first edge once more, reversed.
EdgeList(pool, idx, dup) ==
    LET base == SubList(pool, idx)
    IN  IF dup /\ base # <<>>
        THEN Append(base, Edge(base[1].to, base[1].from))
        ELSE base

DefaultArgs ==
    [min_cluster_size |-> DEFAULT_MIN_CLUSTER_SIZE, max_gaps |-> DEFAULT_MAX_GAPS]

NotStarted ==
    /\ G = EmptyGraph
    /\ betweenness = <<>>
    /\ communities = <<>>
    /\ scorerOut = <<>>
    /\ gaps = <<>>
    /\ stdout = <<>>
    /\ exitCode = -1
    /\ exception = ""

Init ==
    /\ pc = "start"
    /\ COMMUNITY_AVAILABLE \in BOOLEAN
    /\ SEMANTIC_AVAILABLE \in BOOLEAN
    /\ args = DefaultArgs
    /\ \/ /\ stdinOk = TRUE
          /\ \E n \in 4..MaxNodes : nodes = NodeList(n)
          /\ \E idx \in SUBSET (1..Len(EdgePool)), dup \in BOOLEAN :
                edges = EdgeList(EdgePool, idx, dup)
       \/ /\ stdinOk = FALSE
          /\ nodes = <<>>
          /\ edges = <<>>
    /\ NotStarted
    /\ ExtractorIdle

Next ==
    \/ MainBadInput
    \/ MainTooSmall
    \/ MainBuild
    \/ MainBetweenness
    \/ MainDetect
    \/ MainDetectRaises
    \/ MainFindGaps
    \/ MainGapsKeyError
    \/ MainEmit

Spec == Init /\ [][Next]_vars

----------------------------------------------------------------------------
\* find_structural_gaps called on its own, over inputs of its signature.

\* The edges of the drawn graphs, a self-loop among them.
GapEdgePool == <<Edge(2, 3), Edge(3, 4), Edge(4, 5), Edge(1, 6), Edge(3, 3)>>

\* The ids the drawn community dicts give to their first, second and third
\* community: contiguous, or not.
CommunityNumberings == {<<0, 1, 2>>, <<1, 8, 2>>}

\* Community dicts over the nodes 1..n, in node order: up to three consecutive
\* blocks of nodes, numbered by one of the numberings.
BlockAssignments(n) ==
    {[i \in 1..n |-> <<i, ids[f[i]]>>] :
        f \in {h \in [1..n -> 1..3] :
                 /\ h[1] = 1
                 /\ \A i \in 1..(n - 1) : h[i + 1] - h[i] \in {0, 1}},
        ids \in CommunityNumberings}

InitGaps ==
    /\ pc = "call"
    /\ stdinOk = TRUE
    /\ COMMUNITY_AVAILABLE = TRUE
    /\ SEMANTIC_AVAILABLE \in BOOLEAN
    /\ args \in {DefaultArgs}
                \cup [min_cluster_size : {DEFAULT_MIN_CLUSTER_SIZE - 1},
                      max_gaps : {2, DEFAULT_MAX_GAPS}]
    /\ \/ \E n \in {MaxNodes - 3, MaxNodes} : nodes = NodeList(n)
       \/ nodes = Reverse(NodeList(MaxNodes))
    /\ \E idx \in SUBSET (1..Len(GapEdgePool)) : edges = EdgeList(GapEdgePool, idx, FALSE)
    /\ G = build_networkx_graph(nodes, edges)
    /\ betweenness = calculate_betweenness_centrality(G)
    /\ communities \in BlockAssignments(MaxNodes)
    /\ scorerOut = <<>>
    /\ gaps = <<>>
    /\ stdout = <<>>
    /\ exitCode = -1
    /\ exception = ""
    /\ ExtractorIdle

CallReturns ==
    /\ pc = "call"
    /\ GapsReturn("returned")
    /\ UNCHANGED <<extractorVars, stdinOk, nodes, edges, COMMUNITY_AVAILABLE, SEMANTIC_AVAILABLE,
                   args, G, betweenness, communities, stdout, exitCode, exception>>

CallRaises ==
    /\ pc = "call"
    /\ GapsRaise(G, communities, args.min_cluster_size)
    /\ pc' = "raised"
    /\ exception' = "KeyError"
    /\ UNCHANGED <<extractorVars, stdinOk, nodes, edges, COMMUNITY_AVAILABLE, SEMANTIC_AVAILABLE,
                   args, G, betweenness, communities, scorerOut, gaps, stdout, exitCode>>

NextGaps ==
    \/ CallReturns
    \/ CallRaises

SpecGaps == InitGaps /\ [][NextGaps]_vars

----------------------------------------------------------------------------
\* Properties.

Terminated == pc \in {"done", "error"}

\* An edge of the input names a node id that the node list does not hold.
HasUnknownEndpoint ==
    \E i \in DOMAIN edges :
        \/ edges[i].from \notin {nodes[k].id : k \in DOMAIN nodes}
        \/ edges[i].to \notin {nodes[k].id : k \in DOMAIN nodes}

\* C1: an input whose node list has fewer than 5 entries or whose edge list has
\* fewer than 2 ends with exactly the too-small result on stdout (empty gap
\* list, a message) and exit status 0, and the graph, the centrality table, the
\* communities and the gaps are never computed.
C1_TooSmallShortCircuit ==
    (stdinOk /\ (Len(nodes) < 5 \/ Len(edges) < 2)) =>
        /\ pc \in {"start", "done"}
        /\ G = EmptyGraph
        /\ betweenness = <<>>
        /\ communities = <<>>
        /\ scorerOut = <<>>
        /\ gaps = <<>>
        /\ pc = "start" => stdout = <<>>
        /\ pc = "done" =>
              /\ exitCode = 0
              /\ Len(stdout) = 1
              /\ stdout[1].gaps = <<>>
              /\ "message" \in DOMAIN stdout[1]
              /\ stdout[1].num_gaps_detected = 0

\* A triangle with a pendant node has been answered.
C1_Witness ==
    /\ pc = "done"
    /\ Len(nodes) = 4
    /\ {{edges[i].from, edges[i].to} : i \in DOMAIN edges} = {{1, 2}, {2, 3}, {1, 3}, {3, 4}}

\* C2: a run on an input with an edge to an unknown node id ends in the fatal
\* error, with nothing on stdout.
C2_UnknownEndpointRejected ==
    (stdinOk /\ HasUnknownEndpoint /\ Terminated) =>
        /\ pc = "error"
        /\ exitCode = 1
        /\ stdout = <<>>

\* C3: stdout holds nothing until the run ends; a run that ends normally has
\* printed exactly one complete result (the too-small result, or the insight
\* of every gap with the metadata) and exits 0; a run that ends in the fatal
\* error has printed nothing and exits 1.
C3_NoPartialResult ==
    /\ ~Terminated => (stdout = <<>> /\ exitCode = -1)
    /\ pc = "error" => (stdout = <<>> /\ exitCode = 1)
    /\ pc = "done" =>
          /\ exitCode = 0
          /\ Len(stdout) = 1
          /\ \/ /\ "message" \in DOMAIN stdout[1]
                /\ stdout[1].gaps = <<>>
             \/ /\ "analysis_metadata" \in DOMAIN stdout[1]
                /\ Len(stdout[1].gaps) = Len(gaps)
                /\ stdout[1].num_gaps_detected = Len(gaps)

\* A run died in find_structural_gaps, after three stages had completed.
C3_Witness ==
    /\ pc = "error"
    /\ communities # <<>>
    /\ betweenness # <<>>

\* C4: the dict detect_communities returned has every node of the graph as a
\* key exactly once and no other key.
C4_PartitionTotal ==
    (pc \in {"communities", "gaps", "done"} /\ ~TooSmall(nodes, edges)) =>
        /\ \A v \in NodeSet(G) :
              Cardinality({i \in DOMAIN communities : communities[i][1] = v}) = 1
        /\ \A i \in DOMAIN communities : communities[i][1] \in NodeSet(G)

\* The fallback ran on a graph with an isolated node and a larger component.
C4_Witness ==
    /\ pc = "communities"
    /\ ~COMMUNITY_AVAILABLE
    /\ \E v \in NodeSet(G) : Neighbors(G, v) = {}
    /\ \E v \in NodeSet(G) : Cardinality(Neighbors(G, v)) >= 2

\* C5: every returned gap has 0 <= connectivity < 0.2 and
\* community_1 < community_2.
C5_ConnectivityAndOrder ==
    pc = "returned" =>
        \A i \in DOMAIN gaps :
            /\ gaps[i].connectivity.den > 0
            /\ gaps[i].connectivity.num >= 0
            /\ 5 * gaps[i].connectivity.num < gaps[i].connectivity.den
            /\ gaps[i].community_1 < gaps[i].community_2

\* A gap between two communities that an edge joins was returned.
C5_Witness ==
    /\ pc = "returned"
    /\ \E i \in DOMAIN gaps : gaps[i].potential_connections > 0

NodesMappedTo(c) == {communities[i][1] : i \in {k \in DOMAIN communities : communities[k][2] = c}}

NoRepeats(s) == \A i, j \in DOMAIN s : s[i] = s[j] => i = j

\* C6: in every returned gap nodes_1 and nodes_2 list, without repeats, exactly
\* the nodes mapped to community_1 and community_2, and each holds at least
\* min_cluster_size nodes.
C6_MembersAndSize ==
    pc = "returned" =>
        \A i \in DOMAIN gaps :
            /\ Range(gaps[i].nodes_1) = NodesMappedTo(gaps[i].community_1)
            /\ Range(gaps[i].nodes_2) = NodesMappedTo(gaps[i].community_2)
            /\ NoRepeats(gaps[i].nodes_1)
            /\ NoRepeats(gaps[i].nodes_2)
            /\ Len(gaps[i].nodes_1) >= args.min_cluster_size
            /\ Len(gaps[i].nodes_2) >= args.min_cluster_size

\* A gap was returned while a third community was too small to take part.
C6_Witness ==
    /\ pc = "returned"
    /\ gaps # <<>>
    /\ \E c \in Values(communities) :
          /\ Cardinality(NodesMappedTo(c)) < args.min_cluster_size
          /\ \E d \in Values(communities) :
                d # c /\ Cardinality(NodesMappedTo(d)) >= args.min_cluster_size

\* C7: in every returned gap bridge_nodes holds no node twice, only nodes of
\* nodes_1 or nodes_2, and at most top_n = 3 of them.
C7_BridgeNodes ==
    pc = "returned" =>
        \A i \in DOMAIN gaps :
            /\ Range(gaps[i].bridge_nodes)
                  \subseteq Range(gaps[i].nodes_1) \cup Range(gaps[i].nodes_2)
            /\ NoRepeats(gaps[i].bridge_nodes)
            /\ Len(gaps[i].bridge_nodes) <= 3

\* Three bridge nodes were cut from a larger union, and the graph holds a
\* node of positive centrality outside that union.
C7_Witness ==
    /\ pc = "returned"
    /\ \E i \in DOMAIN gaps :
          /\ Len(gaps[i].bridge_nodes) = 3
          /\ Len(gaps[i].nodes_1) + Len(gaps[i].nodes_2) > 3
          /\ \E k \in DOMAIN betweenness :
                /\ betweenness[k][2].num > 0
                /\ betweenness[k][1] \notin
                      Range(gaps[i].nodes_1) \cup Range(gaps[i].nodes_2)

\* gap a sorts strictly before gap b: higher gap_score, or the same gap_score
\* and the smaller (community_1, community_2).
RanksBefore(a, b) ==
    \/ RLess(b.gap_score, a.gap_score)
    \/ /\ REq(a.gap_score, b.gap_score)
       /\ \/ a.community_1 < b.community_1
          \/ a.community_1 = b.community_1 /\ a.community_2 < b.community_2

\* Every gap that qualifies (both clusters large enough, connectivity under the
\* threshold), as the scorer behaved in this call.
QualifyingGaps ==
    Range(AppendedGaps(G, communities, betweenness, args.min_cluster_size, scorerOut))

FixedScorer(comms, o) ==
    LET sized == Range(SizedPairs(comms, args.min_cluster_size))
    IN  [p \in sized |->
            IF ScorerInvoked(get_cluster_keywords(G, MembersOf(comms, p[1])),
                             get_cluster_keywords(G, MembersOf(comms, p[2])))
            THEN o ELSE NotCalled]

\* Two runs of the stages after the centrality table, on the community dicts a
\* and b, end alike: both in KeyError, or both with the same gap list.
SameGapList(a, b, o) ==
    LET ra == GapsRaise(G, a, args.min_cluster_size)
        rb == GapsRaise(G, b, args.min_cluster_size)
    IN  /\ ra <=> rb
        /\ ~ra /\ ~rb =>
              find_structural_gaps(G, a, betweenness, args.min_cluster_size,
                                   args.max_gaps, FixedScorer(a, o))
              = find_structural_gaps(G, b, betweenness, args.min_cluster_size,
                                     args.max_gaps, FixedScorer(b, o))

\* C9: two runs on the same input with the same scorer return the same ordered
\* gap list: whatever two results detect_communities may give for the graph,
\* the gap lists computed from them are equal.
C9_SameInputSameGaps ==
    pc = "centrality" =>
        \A o \in ScorerOutcomes :
            \A a, b \in detect_communities(G) : SameGapList(a, b, o)

\* The number of community pairs c1 < c2 with both clusters of at least
\* min_cluster_size nodes and fewer than a fifth of the possible edges between.
NumLowConnectivityPairs ==
    Cardinality({p \in Values(communities) \X Values(communities) :
        /\ p[1] < p[2]
        /\ Cardinality(NodesMappedTo(p[1])) >= args.min_cluster_size
        /\ Cardinality(NodesMappedTo(p[2])) >= args.min_cluster_size
        /\ 5 * Cardinality({e \in G.edges :
                              /\ e \cap NodesMappedTo(p[1]) # {}
                              /\ e \cap NodesMappedTo(p[2]) # {}})
              < Cardinality(NodesMappedTo(p[1])) * Cardinality(NodesMappedTo(p[2]))})

\* C10: a call returns the gap of every low-connectivity pair (up to max_gaps)
\* whatever the embedding model did, and the gap of a pair for which the model
\* was unavailable, not asked (an empty label list) or raised carries the
\* distance 0.5; a call that raises has met a node without a label, so the
\* scorer is never what aborts it.
C10_ScorerNeverAborts ==
    /\ pc = "returned" =>
          /\ Len(gaps) = IF NumLowConnectivityPairs < args.max_gaps
                         THEN NumLowConnectivityPairs ELSE args.max_gaps
          /\ \A i \in DOMAIN gaps :
                LET o == scorerOut[<<gaps[i].community_1, gaps[i].community_2>>]
                IN  (~SEMANTIC_AVAILABLE \/ ~o.called \/ o.raises)
                        => gaps[i].semantic_distance = 1
    /\ pc = "raised" => \E v \in NodeSet(G) : v \notin DOMAIN G.label

\* The embedding model raised for one returned gap and answered another
\* with a different distance.
C10_Witness ==
    /\ pc = "returned"
    /\ \E i, j \in DOMAIN gaps :
          /\ scorerOut[<<gaps[i].community_1, gaps[i].community_2>>].raises
          /\ scorerOut[<<gaps[j].community_1, gaps[j].community_2>>].called
          /\ gaps[j].semantic_distance # 1

\* The index, from 0, of the connected component of G that holds v.
ComponentNumber(v) == ComponentIndex(connected_components(G), v) - 1

\* C11: community detection never ends a run: no run stops on an exception of
\* the modularity optimizer, and when the optimizer is unavailable every node
\* is assigned the index of its connected component.
C11_DetectionDegrades ==
    /\ exception # "LouvainError"
    /\ (pc \in {"communities", "gaps", "done"} /\ ~TooSmall(nodes, edges)
            /\ ~COMMUNITY_AVAILABLE) =>
          \A i \in DOMAIN communities :
              communities[i][2] = ComponentNumber(communities[i][1])

\* The centrality table has been computed for the graph G.
CentralityComputed ==
    \/ pc \in {"centrality", "communities", "gaps"}
    \/ Terminated /\ G # EmptyGraph

\* The entries of the centrality table for the node v.
ScoresOf(v) == {betweenness[i][2] : i \in {k \in DOMAIN betweenness : betweenness[k][1] = v}}

\* C12: the centrality table has exactly one entry for every node of the graph
\* and none for anything else, every score lies in [0, 1], and a node without
\* neighbours scores 0.
C12_CentralityRange ==
    CentralityComputed =>
        /\ {betweenness[i][1] : i \in DOMAIN betweenness} = NodeSet(G)
        /\ Len(betweenness) = Cardinality(NodeSet(G))
        /\ \A v \in NodeSet(G) : \A b \in ScoresOf(v) :
              /\ b.den > 0
              /\ 0 <= b.num
              /\ b.num <= b.den
              /\ Neighbors(G, v) = {} => b.num = 0

\* The table of a graph with an isolated node, a leaf and two nodes of
\* different positive scores.
C12_Witness ==
    /\ pc = "centrality"
    /\ \E v \in NodeSet(G) : Neighbors(G, v) = {}
    /\ \E v \in NodeSet(G) : Cardinality(Neighbors(G, v)) = 1
    /\ \E v, w \in NodeSet(G) : \E b \in ScoresOf(v), c \in ScoresOf(w) :
          b.num > 0 /\ RLess(b, c)

----------------------------------------------------------------------------
\* main on three families of inputs: two cliques joined by edges, stars, and
\* node lists that repeat ids.

\* Largest clique of the two-clique inputs.
MaxCliqueSize == 4

\* Largest number of leaves of the star inputs.
MaxLeaves == 10

\* Every pair lo <= i < j <= hi as an edge, in lexicographic order.
CliqueEdges(lo, hi) ==
    LET n   == hi - lo + 1
        all == [k \in 1..(n * n) |-> <<lo + ((k - 1) \div n), lo + ((k - 1) % n)>>]
        up  == SelectSeq(all, LAMBDA p : p[1] < p[2])
    IN  [k \in 1..Len(up) |-> Edge(up[k][1], up[k][2])]

\* The cliques on 1..k and k+1..2k, then the first `bridges` of the edges
\* k - (k+1) and 1 - 2k.
TwoCliques(k, bridges) ==
    CliqueEdges(1, k) \o CliqueEdges(k + 1, 2 * k)
        \o SubSeq(<<Edge(k, k + 1), Edge(1, 2 * k)>>, 1, bridges)

\* The hub 1 joined to the leaves 2..h+1.
StarEdges(h) == [i \in 1..h |-> Edge(1, i + 1)]

\* A node list of MIN_NODES entries that names only the ids 1..d.
RepeatedIds(d) == [i \in 1..MIN_NODES |-> [id |-> ((i - 1) % d) + 1, label |-> NodeLabel(i)]]

InitScenarios ==
    /\ pc = "start"
    /\ COMMUNITY_AVAILABLE \in BOOLEAN
    /\ SEMANTIC_AVAILABLE \in BOOLEAN
    /\ args = DefaultArgs
    /\ \/ /\ stdinOk = TRUE
          /\ \E k \in 2..MaxCliqueSize, bridges \in 0..2, missing \in 0..1 :
                /\ nodes = NodeList(2 * k - missing)
                /\ edges = TwoCliques(k, bridges)
       \/ /\ stdinOk = TRUE
          /\ \E h \in 1..MaxLeaves :
                /\ nodes = NodeList(h + 1)
                /\ edges = StarEdges(h)
       \/ /\ stdinOk = TRUE
          /\ \E d \in 1..3 :
                /\ nodes = RepeatedIds(d)
                /\ edges = <<Edge(1, d), Edge(d, 1)>>
       \/ /\ stdinOk = FALSE
          /\ nodes = <<>>
          /\ edges = <<>>
    /\ NotStarted
    /\ ExtractorIdle

SpecScenarios == InitScenarios /\ [][Next]_vars

----------------------------------------------------------------------------
\* Properties of the scenario inputs.

\* Scenario B: two 4-node cliques joined by one edge (8 nodes, 13 edges).
ScenarioB == stdinOk /\ nodes = NodeList(8) /\ edges = TwoCliques(4, 1)

\* What Scenario B expects of each stage that has completed: 2 communities of
\* size 4; one gap, with one inter-community edge, connectivity 1/16 and
\* gap_score 16 * (15/16) * (1 + semantic_distance); a result that reports both.
ScenarioBResult ==
    /\ pc \in {"communities", "gaps", "done"} =>
          /\ Cardinality(Values(communities)) = 2
          /\ \A c \in Values(communities) : Cardinality(NodesMappedTo(c)) = 4
    /\ pc \in {"gaps", "done"} =>
          /\ Len(gaps) = 1
          /\ gaps[1].potential_connections = 1
          /\ REq(gaps[1].connectivity, Rat(1, 16))
          /\ REq(gaps[1].gap_score, Rat(16 * 15 * (2 + gaps[1].semantic_distance), 16 * 2))
    /\ pc = "done" =>
          /\ stdout[1].num_communities = 2
          /\ stdout[1].num_gaps_detected = 1
          /\ Len(stdout[1].gaps) = 1

\* C13 as stated: on Scenario B the engine finds 2 communities of size 4 and
\* emits exactly one gap, with inter-community edge count 1, connectivity 1/16
\* and gap_score 16 * (15/16) * (1 + semantic_distance).
C13_ScenarioB == ScenarioB => ScenarioBResult

\* C13, amended: on Scenario B the engine finds 2 communities of size 4 and
\* emits exactly that one gap when the modularity optimizer is available; under
\* the connected-components fallback it finds one community of 8 nodes and
\* emits no gap.
C13_ScenarioBOptimizer ==
    /\ (ScenarioB /\ COMMUNITY_AVAILABLE) => ScenarioBResult
    /\ (ScenarioB /\ ~COMMUNITY_AVAILABLE) =>
          /\ pc \in {"communities", "gaps", "done"} =>
                /\ Cardinality(Values(communities)) = 1
                /\ Len(communities) = 8
          /\ pc \in {"gaps", "done"} => gaps = <<>>
          /\ pc = "done" => stdout[1].gaps = <<>> /\ stdout[1].num_communities = 1

\* Scenario B has been answered with the optimizer's partition, the embedding
\* model having returned the distance 1.0 for the one gap.
C13_Witness ==
    /\ ScenarioB
    /\ COMMUNITY_AVAILABLE
    /\ pc = "done"
    /\ Len(gaps) = 1
    /\ scorerOut[<<gaps[1].community_1, gaps[1].community_2>>].called
    /\ gaps[1].semantic_distance = 2

\* Scenario D: a star, the hub 1 joined to the leaves 2..11.
ScenarioD == stdinOk /\ nodes = NodeList(11) /\ edges = StarEdges(10)

\* C14: in the centrality table of the star with 10 leaves the hub scores 1,
\* the greatest value a normalized score takes, and every leaf scores 0.
C14_StarHub ==
    (ScenarioD /\ CentralityComputed) =>
        /\ Len(betweenness) = 11
        /\ \A i \in DOMAIN betweenness :
              /\ betweenness[i][1] = 1 => REq(betweenness[i][2], Rat(1, 1))
              /\ betweenness[i][1] \in 2..11 => REq(betweenness[i][2], Rat(0, 1))
              /\ ~RLess(Rat(1, 1), betweenness[i][2])

\* The centrality table of the star with 10 leaves has been computed.
C14_Witness ==
    /\ ScenarioD
    /\ pc = "centrality"
    /\ NodeSet(G) = 1..11
    /\ Cardinality(G.edges) = 10

----------------------------------------------------------------------------
\* Properties of the pair computations.

\* The edges of G with one endpoint in A and the other, a different node, in B.
EdgesBetween(A, B) == {e \in G.edges : \E a \in A, b \in B : a # b /\ e = {a, b}}

\* The community pairs the call computed an edge count for.
ConsideredPairs == Range(SizedPairs(communities, args.min_cluster_size))

\* The connectivity of count edges between clusters of n1 and n2 nodes.
ExpectedConnectivity(count, n1, n2) ==
    IF n1 * n2 = 0 THEN Rat(0, 1) ELSE Rat(count, n1 * n2)

\* C15: for every pair of communities the call considered, the edge count is
\* the number of edges of the graph between the two node sets, and the
\* connectivity is that count over |nodes_1| * |nodes_2| (0 for a product 0);
\* every returned gap records these two values for its pair.
C15_InterEdges ==
    pc = "returned" =>
        /\ \A p \in ConsideredPairs :
              LET nodes_c1 == MembersOf(communities, p[1])
                  nodes_c2 == MembersOf(communities, p[2])
                  inter_edges == count_edges_between(G, nodes_c1, nodes_c2)
                  connectivity == Connectivity(inter_edges, Len(nodes_c1) * Len(nodes_c2))
                  count == Cardinality(EdgesBetween(NodesMappedTo(p[1]), NodesMappedTo(p[2])))
              IN  /\ inter_edges = count
                  /\ connectivity.den > 0
                  /\ REq(connectivity,
                         ExpectedConnectivity(count, Cardinality(NodesMappedTo(p[1])),
                                              Cardinality(NodesMappedTo(p[2]))))
        /\ \A i \in DOMAIN gaps :
              LET N1 == NodesMappedTo(gaps[i].community_1)
                  N2 == NodesMappedTo(gaps[i].community_2)
                  count == Cardinality(EdgesBetween(N1, N2))
              IN  /\ <<gaps[i].community_1, gaps[i].community_2>> \in ConsideredPairs
                  /\ gaps[i].potential_connections = count
                  /\ gaps[i].connectivity.den > 0
                  /\ REq(gaps[i].connectivity,
                         ExpectedConnectivity(count, Cardinality(N1), Cardinality(N2)))

\* A call has returned a gap whose clusters one edge joins, on a graph with an
\* edge inside one of the clusters and a self-loop on a node of it.
C15_Witness ==
    /\ pc = "returned"
    /\ \E i \in DOMAIN gaps :
          /\ gaps[i].potential_connections = 1
          /\ \E e \in G.edges : Cardinality(e) = 2 /\ e \subseteq Range(gaps[i].nodes_1)
          /\ \E e \in G.edges : Cardinality(e) = 1 /\ e \subseteq Range(gaps[i].nodes_1)

\* a * b * c
RMul3(a, b, c) == Rat(a.num * b.num * c.num, a.den * b.den * c.den)

\* 1 - a
RComplement(a) == Rat(a.den - a.num, a.den)

\* 1 + d, for a distance d given in halves
OnePlusDistance(d) == Rat(2 + d, 2)

ScoreOf(v) == CHOOSE b \in ScoresOf(v) : TRUE

\* The node a ranks before the node b as a bridge: higher score, or the same
\* score and the smaller id.
BridgeRanksBefore(a, b) ==
    \/ RLess(ScoreOf(b), ScoreOf(a))
    \/ REq(ScoreOf(a), ScoreOf(b)) /\ a < b

\* C17: bridge_nodes of every returned gap lists the nodes of nodes_1 and
\* nodes_2 that have a centrality entry, by descending score and, for equal
\* scores, ascending node id, cut to the first 3.
C17_BridgeOrder ==
    pc = "returned" =>
        \A i \in DOMAIN gaps :
            LET cands == {v \in Range(gaps[i].nodes_1) \cup Range(gaps[i].nodes_2) :
                             ScoresOf(v) # {}}
                bridge == gaps[i].bridge_nodes
            IN  /\ Range(bridge) \subseteq cands
                /\ Len(bridge) = IF Cardinality(cands) < 3 THEN Cardinality(cands) ELSE 3
                /\ \A j, k \in DOMAIN bridge : j < k => BridgeRanksBefore(bridge[j], bridge[k])
                /\ \A v \in cands \ Range(bridge) :
                      \A j \in DOMAIN bridge : BridgeRanksBefore(bridge[j], v)

----------------------------------------------------------------------------
\* Brandes' accumulation, for the properties of the centrality table.

\* a in lowest terms.
Reduced(a) ==
    LET d == Gcd(IF a.num < 0 THEN -a.num ELSE a.num, a.den)
    IN  Rat(a.num \div d, a.den \div d)

RECURSIVE RSumFrom(_, _, _)
\* acc plus the sum of f[x] over x in S, in lowest terms.
RSumFrom(S, f, acc) ==
    IF S = {} \/ ~Computed(f) \/ ~Computed(acc) THEN acc
    ELSE LET x == CHOOSE y \in S : TRUE
         IN  RSumFrom(S \ {x}, f, Reduced(RAdd(acc, f[x])))

\* The sum of f[x] over x in S, in lowest terms.
RSumOver(S, f) == RSumFrom(S, f, Rat(0, 1))

\* Greatest element of a non-empty set of integers.
Maximum(S) == CHOOSE x \in S : \A y \in S : y <= x

RECURSIVE Accumulate(_, _, _, _, _)
\* The dependencies delta_s of one source, from the farthest level k back to
\* the source: delta_s(v) is the sum over the successors w of v on shortest
\* paths from s of (sigma[v] / sigma[w]) * (1 + delta_s(w)).
Accumulate(g, dist, sigma, k, delta) ==
    IF k < 0 \/ ~Computed(sigma) \/ ~Computed(delta) THEN delta
    ELSE Accumulate(g, dist, sigma, k - 1,
           [v \in NodeSet(g) |->
              IF dist[v] # k THEN delta[v]
              ELSE LET succ == {w \in Neighbors(g, v) : dist[w] = k + 1}
                   IN  RSumOver(succ, [w \in succ |->
                           Rat(sigma[v] * (delta[w].den + delta[w].num),
                               sigma[w] * delta[w].den)])])

\* delta_s, the dependency of the source s on every node.
Dependency(g, s) ==
    LET dist  == DistFrom(g, s)
        sigma == SigmaFrom(g, s, dist)
    IN  Accumulate(g, dist, sigma, Maximum(Range(dist)), [v \in NodeSet(g) |-> Rat(0, 1)])

\* The dependencies on v accumulated over every source other than v.
BrandesTotal(g, v) ==
    RSumOver(NodeSet(g) \ {v}, [s \in NodeSet(g) \ {v} |-> Dependency(g, s)[v]])

\* total / divisor for a graph of n > 2 nodes, 0 for a smaller one.
NormalizedBy(total, divisor, n) ==
    IF n < 3 THEN Rat(0, 1) ELSE Rat(total.num, total.den * divisor)

\* C18 as stated: every score is the node's accumulated total divided by 2 and
\* then by (n-1)(n-2), and 0 when n < 3.
C18_HalvedThenNormalized ==
    CentralityComputed =>
        LET n == Cardinality(NodeSet(G))
        IN  \A v \in NodeSet(G) :
                REq(ScoreOf(v), NormalizedBy(BrandesTotal(G, v), 2 * (n - 1) * (n - 2), n))

\* C18, amended: every score is the node's accumulated total divided by
\* (n-1)(n-2), without the halving, and 0 when n < 3.
C18_Normalized ==
    CentralityComputed =>
        LET n == Cardinality(NodeSet(G))
        IN  \A v \in NodeSet(G) :
                REq(ScoreOf(v), NormalizedBy(BrandesTotal(G, v), (n - 1) * (n - 2), n))

\* The table of a graph in which some pair of nodes has two shortest paths
\* has been computed, a node on one of them scoring above 0.
C18_Witness ==
    /\ pc = "centrality"
    /\ \E s, t \in NodeSet(G) : SigmaFrom(G, s, DistFrom(G, s))[t] = 2
    /\ \E v \in NodeSet(G) : ScoreOf(v).num > 0

----------------------------------------------------------------------------
\* Properties of the result and of the frame.

\* The edge list with each unordered node pair once, at its first place.
UniquePairs(es) ==
    LET first == SelectSeq([i \in 1..Len(es) |-> i], LAMBDA i :
                    \A j \in 1..(i - 1) :
                        {es[j].from, es[j].to} # {es[i].from, es[i].to})
    IN  [k \in 1..Len(first) |-> es[first[k]]]

\* C19: the metadata of a full result on an input whose edges name listed
\* nodes only reports the node count and the edge count of the built graph,
\* and that graph is the one built from the edge list with each unordered pair
\* once.
C19_MetadataCountsGraph ==
    (pc = "done" /\ ~TooSmall(nodes, edges) /\ ~HasUnknownEndpoint) =>
        /\ stdout[1].analysis_metadata.total_nodes = Cardinality(NodeSet(G))
        /\ stdout[1].analysis_metadata.total_edges = Cardinality(G.edges)
        /\ G = build_networkx_graph(nodes, UniquePairs(edges))

\* C20: once build_networkx_graph has returned no step changes the graph (its
\* nodes, their labels, its edges); once the centrality table has been
\* computed no step changes it; once the communities have been assigned no
\* step changes them.
C20_NoMutationAfterBuild ==
    [][/\ pc # "start" => G' = G
       /\ pc \notin {"start", "built"} => betweenness' = betweenness
       /\ pc \notin {"start", "built", "centrality"} => communities' = communities]_vars

\* A run has passed every stage and printed a gap with bridge nodes.
C20_Witness ==
    /\ pc = "done"
    /\ G # EmptyGraph
    /\ gaps # <<>>
    /\ gaps[1].bridge_nodes # <<>>
    /\ Len(stdout) = 1

----------------------------------------------------------------------------
\* Knowledge Graph Extractor: text helpers.

\* Largest number of entries of the list passed to deduplicate_entities.
MaxEntities == 3

\* str.lower on the letters of the model's texts.
LowerCase == [c \in {"A", "B", "M"} |-> CASE c = "A" -> "a" [] c = "B" -> "b" [] c = "M" -> "m"]

Lower(c) == IF c \in DOMAIN LowerCase THEN LowerCase[c] ELSE c

\* \s
IsSpace(c) == c \in {" ", "\t", "\n"}

\* \w
IsWord(c) == c \in {"a", "b", "c", "m", "A", "B", "M", "5", "_"}

\* str.strip(): leading and trailing whitespace removed.
strip(text) ==
    LET kept == {i \in DOMAIN text : ~IsSpace(text[i])}
    IN  IF kept = {} THEN <<>>
        ELSE SubSeq(text, CHOOSE i \in kept : \A j \in kept : i <= j,
                          CHOOSE i \in kept : \A j \in kept : j <= i)

\* re.sub(r'\s+', ' ', text): every maximal run of whitespace becomes one space.
CollapseWhitespace(text) ==
    LET first == SelectSeq([i \in DOMAIN text |-> i], LAMBDA i :
                     ~IsSpace(text[i]) \/ i = 1 \/ ~IsSpace(text[i - 1]))
    IN  [k \in DOMAIN first |-> IF IsSpace(text[first[k]]) THEN " " ELSE text[first[k]]]

\* re.sub(r'[^\w\s]', '', text)
RemovePunctuation(text) == SelectSeq(text, LAMBDA c : IsWord(c) \/ IsSpace(c))

normalize_entity_text(text) ==
    RemovePunctuation(CollapseWhitespace(strip([i \in DOMAIN text |-> Lower(text[i])])))

\* dict.get(key, default) on a record.
Get(d, key, default) == IF key \in DOMAIN d THEN d[key] ELSE default

----------------------------------------------------------------------------
\* deduplicate_entities

\* Mutant: an entity of equal confidence replaces the one kept.
ReplacesOnTie(ent, kept) == Get(ent, "confidence", 0) >= Get(kept, "confidence", 0)

\* ent.get('confidence', 0) > seen[norm_text].get('confidence', 0)
Replaces(ent, kept) == Get(ent, "confidence", 0) > Get(kept, "confidence", 0)

\* One pass of the loop body: seen is a function from normalized labels to the
\* entity kept for each.
DeduplicateStep(st, ent) ==
    LET norm_text == normalize_entity_text(ent.label)
    IN  IF norm_text \notin DOMAIN st.seen
        THEN [seen |-> (norm_text :> ent) @@ st.seen,
              deduplicated |-> Append(st.deduplicated, ent)]
        ELSE IF Replaces(ent, st.seen[norm_text])
        THEN [seen |-> (norm_text :> ent) @@ st.seen,
              deduplicated |->
                  Append(SelectSeq(st.deduplicated, LAMBDA e :
                             normalize_entity_text(e.label) # norm_text), ent)]
        ELSE st

RECURSIVE DeduplicateFrom(_, _)
DeduplicateFrom(st, ents) ==
    IF ents = <<>> \/ ~Computed(st) THEN st
    ELSE DeduplicateFrom(DeduplicateStep(st, Head(ents)), Tail(ents))

deduplicate_entities(ents) ==
    DeduplicateFrom([seen |-> <<>>, deduplicated |-> <<>>], ents).deduplicated

----------------------------------------------------------------------------
\* deduplicate_entities called on its own, over lists of entities.

\* No gap engine call is running.
AnalyzerIdle ==
    /\ pc = "idle"
    /\ stdinOk = FALSE
    /\ nodes = <<>>
    /\ edges = <<>>
    /\ COMMUNITY_AVAILABLE = FALSE
    /\ args = DefaultArgs
    /\ NotStarted

\* The labels of the drawn entities: three that normalize to "ab" (by case,
\* by surrounding whitespace, by punctuation), and two that differ from them
\* and from each other only in whitespace.
LabelPool ==
    {<<"A", "b">>, <<"a", "b", " ">>, <<"a", "-", "b">>,
     <<"a", " ", "b">>, <<"a", " ", "-", " ", "b">>}

\* The entities of the drawn lists: with a confidence, or without the key.
EntityPool ==
    [label : LabelPool, confidence : {0, 70, 95}] \cup [label : LabelPool]

\* e with the key 'id'.
WithId(e, id) == [k \in DOMAIN e \cup {"id"} |-> IF k = "id" THEN id ELSE e[k]]

InitDeduplicate ==
    /\ xpc = "call"
    /\ \E n \in 0..MaxEntities : \E es \in [1..n -> EntityPool] :
          entities = [i \in 1..n |-> WithId(es[i], i)]
    /\ doc = <<>>
    /\ SEMANTIC_AVAILABLE = FALSE
    /\ TOPIC_MODELING_AVAILABLE = FALSE
    /\ deduplicated = <<>>
    /\ node_ids = <<>>
    /\ counter = 1
    /\ dep_edges = <<>>
    /\ pattern_edges = <<>>
    /\ semantic_edges = <<>>
    /\ theme_nodes = <<>>
    /\ theme_edges = <<>>
    /\ AnalyzerIdle

\* deduplicate_entities(entities) returns.
CallDeduplicate ==
    /\ xpc = "call"
    /\ deduplicated' = deduplicate_entities(entities)
    /\ xpc' = "returned"
    /\ UNCHANGED <<analyzerVars, SEMANTIC_AVAILABLE, stdout, exitCode, doc,
                   TOPIC_MODELING_AVAILABLE, entities, node_ids, counter, dep_edges,
                   pattern_edges, semantic_edges, theme_nodes, theme_edges>>

\* The function is called again, on the list it returned.
CallDeduplicateAgain ==
    /\ xpc = "returned"
    /\ entities' = deduplicated
    /\ deduplicated' = deduplicate_entities(deduplicated)
    /\ xpc' = "returned again"
    /\ UNCHANGED <<analyzerVars, SEMANTIC_AVAILABLE, stdout, exitCode, doc,
                   TOPIC_MODELING_AVAILABLE, node_ids, counter, dep_edges,
                   pattern_edges, semantic_edges, theme_nodes, theme_edges>>

NextDeduplicate ==
    \/ CallDeduplicate
    \/ CallDeduplicateAgain

SpecDeduplicate == InitDeduplicate /\ [][NextDeduplicate]_vars

\* The normalized labels of a list of entities.
NormalizedLabels(ents) == {normalize_entity_text(ents[i].label) : i \in DOMAIN ents}

\* The places of a in b, when a is b with some entries left out: an increasing
\* choice of |a| places of b that holds the entries of a.
IsSubList(a, b) ==
    \E places \in [DOMAIN a -> DOMAIN b] :
        /\ \A i, j \in DOMAIN a : i < j => places[i] < places[j]
        /\ \A i \in DOMAIN a : b[places[i]] = a[i]

\* The entity of ents that stands for the normalized label norm: the first in
\* list order whose confidence (0 without the key) is the greatest among the
\* entities of that label.
FirstOfGreatestConfidence(ents, norm) ==
    LET group == {i \in DOMAIN ents : normalize_entity_text(ents[i].label) = norm}
        best  == {i \in group : \A j \in group :
                     Get(ents[j], "confidence", 0) <= Get(ents[i], "confidence", 0)}
    IN  ents[CHOOSE i \in best : \A j \in best : i <= j]

\* C22: what deduplicate_entities returns is a sub-list of its input with
\* pairwise different normalized labels, that holds for every normalized label
\* of the input the first entity of greatest confidence, and on which the
\* function changes nothing.
C22_DeduplicateKeepsFirstBest ==
    xpc \in {"returned", "returned again"} =>
        /\ IsSubList(deduplicated, entities)
        /\ \A i, j \in DOMAIN deduplicated :
              i # j => normalize_entity_text(deduplicated[i].label)
                         # normalize_entity_text(deduplicated[j].label)
        /\ NormalizedLabels(deduplicated) = NormalizedLabels(entities)
        /\ \A i \in DOMAIN deduplicated :
              deduplicated[i] = FirstOfGreatestConfidence(entities,
                                    normalize_entity_text(deduplicated[i].label))
        /\ deduplicate_entities(deduplicated) = deduplicated

\* A call has returned a list in which a later entity of greater confidence
\* and of another spelling stands for a label in place of the first entity,
\* behind the entity that came between the two.
C22_Witness ==
    /\ xpc = "returned"
    /\ Len(entities) = 3
    /\ Len(deduplicated) = 2
    /\ deduplicated[1] = entities[2]
    /\ deduplicated[2] = entities[3]
    /\ Replaces(entities[3], entities[1])
    /\ entities[3].label # entities[1].label

----------------------------------------------------------------------------
\* Knowledge Graph Extractor: main and the relationship extractors.
\*
\* The document is what spaCy and the models make of the text on stdin:
\*   kind       "empty" (nothing but whitespace), "blank" (nothing left after
\*              sanitizing) or "text"
\*   ents       doc.ents in order, each with its text, its label_ and the
\*              confidence classify_entity_intelligent returns for it
\*   money      what the currency patterns match in the text, in order
\*   parsed     whether the dependency parse links the entities: every
\*              ordered pair of them as subject and object of a verb, or none
\*   between    the lower-cased tokens that lie between any two entities
\*   similar    whether the contexts of the entities are similar: every pair
\*              above SEMANTIC_THRESHOLD, or none
\*   long       len(text) >= 100
\*   topics     the topics BERTopic finds, each with its keywords
\* An extractor that matches every pair emits every edge it can emit for the
\* entities; each edge is built from its own pair alone.
\* A node is modelled with the keys id, label and confidence; type, reasoning
\* and can_verify, and the metadata of the result, are left out.

\* Largest number of entities spaCy finds in the text.
MaxEnts == 3

CONFIDENCE_MONEY == 95          \* "confidence": 0.95 of a MONEY node
CONFIDENCE_THEME == 85          \* "confidence": 0.85 of a THEME node

\* node_ids.get(...) found nothing: None, which "e['from'] and e['to']" treats
\* like the number 0.
None == 0

LOCATION_PREPS == {"in", "at", "from", "near", "based", "located", "headquartered"}
WORK_INDICATORS == {"works", "work", "employed", "ceo", "founded", "created", "leads", "serves"}
DEV_INDICATORS == {"developed", "created", "built", "designed", "launched", "announced"}

\* a in b, for two str.
IsSubstring(a, b) ==
    \E i \in 0..(Len(b) - Len(a)) : SubSeq(b, i + 1, i + Len(a)) = a

\* text.lower()
lower(text) == [i \in DOMAIN text |-> Lower(text[i])]

\* The entries of s whose key no earlier entry has, in order; keys[i] is the
\* key of s[i].
UniqueBy(s, keys) ==
    LET first == SelectSeq([i \in DOMAIN s |-> i], LAMBDA i :
                     \A j \in 1..(i - 1) : keys[j] # keys[i])
    IN  [k \in DOMAIN first |-> s[first[k]]]

\* The pairs <<i, j>> of 1..n, i in the outer loop and j in the inner one.
LoopPairs(n) == [k \in 1..(n * n) |-> <<((k - 1) \div n) + 1, ((k - 1) % n) + 1>>]

\* The money texts that become nodes: those not inside an entity text and
\* not containing one.
extract_money_entities(d) ==
    SelectSeq(d.money, LAMBDA money_text :
        ~\E i \in DOMAIN d.ents :
            \/ IsSubstring(money_text, d.ents[i].text)
            \/ IsSubstring(d.ents[i].text, money_text))

\* The node list of main before deduplication, numbered from 1: the entities,
\* then the money texts.
EntityNodes(d) ==
    LET money_entities == extract_money_entities(d)
    IN  [i \in DOMAIN d.ents |->
            [id |-> i, label |-> d.ents[i].text, confidence |-> d.ents[i].confidence]]
        \o [k \in DOMAIN money_entities |->
            [id |-> Len(d.ents) + k, label |-> money_entities[k],
             confidence |-> CONFIDENCE_MONEY]]

\* {node["label"]: node["id"] for node in nodes}, and the dict the loops of
\* main fill: a later node of the same label overwrites the earlier one.
NodeIds(ns) ==
    [l \in {ns[i].label : i \in DOMAIN ns} |->
        ns[CHOOSE i \in DOMAIN ns :
              /\ ns[i].label = l
              /\ \A j \in DOMAIN ns : ns[j].label = l => j <= i].id]

\* node_ids.get(text)
Lookup(ids, text) == IF text \in DOMAIN ids THEN ids[text] ELSE None

\* The keys of relationship_map in insertion order: the (subject text, object
\* text) pairs of different texts the parse yields.
RelationshipKeys(d) ==
    IF ~d.parsed THEN <<>>
    ELSE LET linked == SelectSeq(LoopPairs(Len(d.ents)), LAMBDA p :
                           d.ents[p[1]].text # d.ents[p[2]].text)
             keys   == [k \in DOMAIN linked |->
                          <<d.ents[linked[k][1]].text, d.ents[linked[k][2]].text>>]
         IN  UniqueBy(keys, keys)

extract_dependency_relationships(d, ids) ==
    LET keys  == RelationshipKeys(d)
        known == SelectSeq(keys, LAMBDA key : key[1] \in DOMAIN ids /\ key[2] \in DOMAIN ids)
    IN  [k \in DOMAIN known |->
            [from |-> ids[known[k][1]], to |-> ids[known[k][2]],
             label |-> "acquire", source |-> "dependency"]]

\* One of the three loops of extract_pattern_relationships: ent runs over the
\* entities labelled ent_labels, other_ent over those labelled other_labels,
\* and a pair is matched when one of the words lies between the two; label
\* is the label the loop gives its edges.
PatternLoop(d, ids, ent_labels, other_labels, words, label) ==
    LET matched == d.between \cap words
        pairs   == SelectSeq(LoopPairs(Len(d.ents)), LAMBDA p :
                       /\ d.ents[p[1]].label_ \in ent_labels
                       /\ d.ents[p[2]].label_ \in other_labels
                       /\ p[1] # p[2]
                       /\ matched # {})
    IN  [k \in DOMAIN pairs |->
            [from |-> Lookup(ids, d.ents[pairs[k][2]].text),
             to |-> Lookup(ids, d.ents[pairs[k][1]].text),
             label |-> label, source |-> "pattern"]]

\* The label of an organizational relationship, from the matched words.
WorkLabel(matched) ==
    IF matched \cap {"founded", "created"} # {} THEN "founded"
    ELSE IF matched \cap {"ceo", "leads"} # {} THEN "leads"
    ELSE "works_at"

extract_pattern_relationships(d, ids) ==
    SelectSeq(PatternLoop(d, ids, {"GPE", "LOC", "FAC"}, {"PERSON", "ORG"}, LOCATION_PREPS,
                          "located_in")
              \o PatternLoop(d, ids, {"ORG"}, {"PERSON"}, WORK_INDICATORS,
                             WorkLabel(d.between \cap WORK_INDICATORS))
              \o PatternLoop(d, ids, {"PRODUCT", "WORK_OF_ART"}, {"ORG", "PERSON"},
                             DEV_INDICATORS, "developed"),
              LAMBDA e : e.from # None /\ e.to # None)

\* The edges between the nodes that carry the text of an entity, every pair
\* once, when the model is there and finds the contexts similar.  A model
\* that fails to load gives the result of a missing one.
extract_semantic_relationships(d, ns) ==
    LET entities_list == SelectSeq(ns, LAMBDA node :
                             \E i \in DOMAIN d.ents : d.ents[i].text = node.label)
        pairs == SelectSeq(LoopPairs(Len(entities_list)), LAMBDA p : p[1] < p[2])
    IN  IF ~SEMANTIC_AVAILABLE \/ Len(entities_list) < 2 \/ ~d.similar THEN <<>>
        ELSE [k \in DOMAIN pairs |->
                [from |-> entities_list[pairs[k][1]].id,
                 to |-> entities_list[pairs[k][2]].id,
                 label |-> "semantically_related", source |-> "semantic"]]

\* Whether extract_topics gets as far as its topics.
TopicsRun(d) == TOPIC_MODELING_AVAILABLE /\ SEMANTIC_AVAILABLE /\ d.long

\* The themes extract_topics makes of the topics: theme k gets the id
\* first + k - 1.
ThemeNodes(d, first) ==
    [k \in DOMAIN d.topics |->
        [id |-> first + k - 1,
         label |-> <<"T", ":", " ">> \o d.topics[k][1],
         confidence |-> CONFIDENCE_THEME]]

\* The edges to theme k: from every node whose lower-cased label holds a
\* keyword of the topic or lies in one.
ThemeEdgesOf(d, ns, first, k) ==
    LET related == SelectSeq(ns, LAMBDA node :
                       \E w \in DOMAIN d.topics[k] :
                           \/ IsSubstring(lower(d.topics[k][w]), lower(node.label))
                           \/ IsSubstring(lower(node.label), lower(d.topics[k][w])))
    IN  [i \in DOMAIN related |->
            [from |-> related[i].id, to |-> first + k - 1,
             label |-> "relates_to_theme", source |-> "topic_modeling"]]

RECURSIVE ThemeEdges(_, _, _, _)
ThemeEdges(d, ns, first, k) ==
    IF k > Len(d.topics) THEN <<>>
    ELSE ThemeEdgesOf(d, ns, first, k) \o ThemeEdges(d, ns, first, k + 1)

\* The key main deduplicates edges by.
EdgeKey(e) == <<e.from, e.to, e.label>>

----------------------------------------------------------------------------
\* main of the extractor, stage by stage.

\* The entities spaCy may find: an organization, a place of the same name in
\* another case, a person, and a product whose text a money text normalizes
\* to.
SpanPool ==
    {[text |-> <<"A", "b">>, label_ |-> "ORG", confidence |-> 70],
     [text |-> <<"a", "b">>, label_ |-> "GPE", confidence |-> 95],
     [text |-> <<"c">>, label_ |-> "PERSON", confidence |-> 85],
     [text |-> <<"5", "M">>, label_ |-> "PRODUCT", confidence |-> 70]}

\* What the currency patterns may match.
MoneyPool == {<<>>, << <<"$", "5", "m">>, <<"$", "5", "M">> >>}

\* The tokens that may lie between two entities.
BetweenPool == {{}, {"in", "created"}, {"ceo"}}

\* The topics BERTopic may find.
TopicPool ==
    {<<>>, << <<(<<"a", "b">>)>> >>, << <<(<<"c">>), <<"5", "m">> >>, <<(<<"B">>)>> >>}

\* A document without text.
NoText(kind) ==
    [kind |-> kind, ents |-> <<>>, money |-> <<>>, parsed |-> FALSE, between |-> {},
     similar |-> FALSE, long |-> FALSE, topics |-> <<>>]

InitExtractor ==
    /\ xpc = "start"
    /\ SEMANTIC_AVAILABLE \in BOOLEAN
    /\ TOPIC_MODELING_AVAILABLE \in BOOLEAN
    /\ \/ \E kind \in {"empty", "blank"} : doc = NoText(kind)
       \/ \E n \in 0..MaxEnts : \E ents \in [1..n -> SpanPool] :
             doc \in [kind : {"text"}, ents : {ents}, money : MoneyPool,
                      parsed : BOOLEAN, between : BetweenPool,
                      similar : IF SEMANTIC_AVAILABLE THEN BOOLEAN ELSE {FALSE},
                      long : IF TOPIC_MODELING_AVAILABLE /\ SEMANTIC_AVAILABLE
                             THEN BOOLEAN ELSE {TRUE},
                      topics : TopicPool]
          /\ (doc.topics # <<>> => TOPIC_MODELING_AVAILABLE /\ SEMANTIC_AVAILABLE /\ doc.long)
    /\ entities = <<>>
    /\ deduplicated = <<>>
    /\ node_ids = <<>>
    /\ counter = 1
    /\ dep_edges = <<>>
    /\ pattern_edges = <<>>
    /\ semantic_edges = <<>>
    /\ theme_nodes = <<>>
    /\ theme_edges = <<>>
    /\ AnalyzerIdle

\* The text is empty, or nothing is left of it: the empty result is printed,
\* then sys.exit(0), which "except Exception" does not catch.
ExtractNothing ==
    /\ xpc = "start"
    /\ doc.kind # "text"
    /\ stdout' = Append(stdout, [nodes |-> <<>>, edges |-> <<>>])
    /\ exitCode' = 0
    /\ xpc' = "done"
    /\ UNCHANGED <<analyzerVars, SEMANTIC_AVAILABLE, doc, TOPIC_MODELING_AVAILABLE,
                   entities, deduplicated, node_ids, counter, dep_edges, pattern_edges,
                   semantic_edges, theme_nodes, theme_edges>>

\* nlp(clean_text), or a later call, raises: the handler reports on stderr and
\* exits 1 without a result.
ExtractRaises ==
    /\ xpc = "start"
    /\ doc.kind = "text"
    /\ exitCode' = 1
    /\ xpc' = "error"
    /\ UNCHANGED <<analyzerVars, SEMANTIC_AVAILABLE, stdout, doc, TOPIC_MODELING_AVAILABLE,
                   entities, deduplicated, node_ids, counter, dep_edges, pattern_edges,
                   semantic_edges, theme_nodes, theme_edges>>

\* The two loops that number the entities and the money texts.
ExtractEntities ==
    /\ xpc = "start"
    /\ doc.kind = "text"
    /\ entities' = EntityNodes(doc)
    /\ node_ids' = NodeIds(entities')
    /\ counter' = counter + Len(entities')
    /\ xpc' = "entities"
    /\ UNCHANGED <<analyzerVars, SEMANTIC_AVAILABLE, stdout, exitCode, doc,
                   TOPIC_MODELING_AVAILABLE, deduplicated, dep_edges, pattern_edges,
                   semantic_edges, theme_nodes, theme_edges>>

\* Mutant: node_ids is not rebuilt from the deduplicated nodes.
ExtractDeduplicateStaleIds ==
    /\ xpc = "entities"
    /\ deduplicated' = deduplicate_entities(entities)
    /\ entities' = deduplicated'
    /\ xpc' = "deduplicated"
    /\ UNCHANGED <<analyzerVars, SEMANTIC_AVAILABLE, stdout, exitCode, doc,
                   TOPIC_MODELING_AVAILABLE, node_ids, counter, dep_edges, pattern_edges,
                   semantic_edges, theme_nodes, theme_edges>>

\* nodes = deduplicate_entities(nodes), and node_ids rebuilt from the result.
ExtractDeduplicate ==
    /\ xpc = "entities"
    /\ deduplicated' = deduplicate_entities(entities)
    /\ entities' = deduplicated'
    /\ node_ids' = NodeIds(entities')
    /\ xpc' = "deduplicated"
    /\ UNCHANGED <<analyzerVars, SEMANTIC_AVAILABLE, stdout, exitCode, doc,
                   TOPIC_MODELING_AVAILABLE, counter, dep_edges, pattern_edges,
                   semantic_edges, theme_nodes, theme_edges>>

\* The three relationship extractors, called on doc.ents and the node list.
ExtractRelationships ==
    /\ xpc = "deduplicated"
    /\ dep_edges' = extract_dependency_relationships(doc, node_ids)
    /\ pattern_edges' = extract_pattern_relationships(doc, node_ids)
    /\ semantic_edges' = extract_semantic_relationships(doc, entities)
    /\ xpc' = "relationships"
    /\ UNCHANGED <<analyzerVars, SEMANTIC_AVAILABLE, stdout, exitCode, doc,
                   TOPIC_MODELING_AVAILABLE, entities, deduplicated, node_ids, counter,
                   theme_nodes, theme_edges>>

\* extract_topics: themes numbered from counter on, each with its edges.
ExtractTopics ==
    /\ xpc = "relationships"
    /\ IF TopicsRun(doc)
       THEN /\ theme_nodes' = ThemeNodes(doc, counter)
            /\ theme_edges' = ThemeEdges(doc, entities, counter, 1)
            /\ counter' = counter + Len(doc.topics)
       ELSE UNCHANGED <<theme_nodes, theme_edges, counter>>
    /\ xpc' = "topics"
    /\ UNCHANGED <<analyzerVars, SEMANTIC_AVAILABLE, stdout, exitCode, doc,
                   TOPIC_MODELING_AVAILABLE, entities, deduplicated, node_ids, dep_edges,
                   pattern_edges, semantic_edges>>

\* The lists are combined, the edges deduplicated by (from, to, label), and
\* the result is printed.
ExtractEmit ==
    /\ xpc = "topics"
    /\ LET all_edges == dep_edges \o pattern_edges \o semantic_edges \o theme_edges
       IN  stdout' = Append(stdout,
              [nodes |-> entities \o theme_nodes,
               edges |-> UniqueBy(all_edges,
                                  [k \in DOMAIN all_edges |-> EdgeKey(all_edges[k])])])
    /\ exitCode' = 0
    /\ xpc' = "done"
    /\ UNCHANGED <<analyzerVars, SEMANTIC_AVAILABLE, doc, TOPIC_MODELING_AVAILABLE,
                   entities, deduplicated, node_ids, counter, dep_edges, pattern_edges,
                   semantic_edges, theme_nodes, theme_edges>>

NextExtractor ==
    \/ ExtractNothing
    \/ ExtractRaises
    \/ ExtractEntities
    \/ ExtractDeduplicate
    \/ ExtractRelationships
    \/ ExtractTopics
    \/ ExtractEmit

SpecExtractor == InitExtractor /\ [][NextExtractor]_vars

\* The ids of the nodes of a result.
EmittedIds(result) == {result.nodes[i].id : i \in DOMAIN result.nodes}

\* C21: in every result the extractor prints the node ids are pairwise
\* different, the nodes are the entities that deduplication kept followed by
\* the theme nodes, and both ends of every edge are ids of printed nodes.
C21_EdgesNameEmittedNodes ==
    (xpc = "done" /\ Len(stdout) = 1) =>
        LET result == stdout[1]
        IN  /\ \A i, j \in DOMAIN result.nodes :
                  i # j => result.nodes[i].id # result.nodes[j].id
            /\ result.nodes = deduplicate_entities(EntityNodes(doc)) \o theme_nodes
            /\ \A k \in DOMAIN result.edges :
                  /\ result.edges[k].from \in EmittedIds(result)
                  /\ result.edges[k].to \in EmittedIds(result)

\* A result has been printed for a text in which the parse linked an entity
\* that deduplication removed, and the result has a dependency edge, a
\* pattern edge and a theme edge.
C21_Witness ==
    /\ xpc = "done"
    /\ Len(stdout) = 1
    /\ \E k \in DOMAIN RelationshipKeys(doc) : RelationshipKeys(doc)[k][1] \notin DOMAIN node_ids
    /\ \A source \in {"dependency", "pattern", "topic_modeling"} :
          \E k \in DOMAIN stdout[1].edges : stdout[1].edges[k].source = source

====
